---- MODULE Spec2Model ----
(***************************************************************************)
(* Find & Replace engine of the transcript editor                          *)
(* (src/src/components/FindReplaceModal.tsx).                              *)
(*                                                                         *)
(* Strings are sequences of one-character strings; offsets are 0-based as  *)
(* in JavaScript, so the character at offset o of s is s[o + 1].           *)
(*                                                                         *)
(* One action is one UI or host event together with the whole React        *)
(* update it causes: the batched state updates of the handler, the render, *)
(* the effects whose dependencies changed, the state updates those effects *)
(* queue, the next render, and so on until no effect has anything left to  *)
(* do (createRoot, React 18: effects of a discrete event are flushed       *)
(* synchronously and their updates are batched).                           *)
(***************************************************************************)
EXTENDS Integers, Sequences, FiniteSets, TLC

\* ------------------------------------------------------------------ bounds
MaxBufLen == 3
MaxPatLen == 2
MaxRepLen == 2

BufChars == {"a", "b"}
PatChars == {"a", "A", "*", "+"}
RepChars == {"a"}

Seqs(S, n) == UNION {[1..k -> S] : k \in 0..n}

Buffers      == Seqs(BufChars, MaxBufLen)
Patterns     == Seqs(PatChars, MaxPatLen)
Replacements == Seqs(RepChars, MaxRepLen)
\* window.getSelection().toString() when the hotkey is pressed: nothing, or a
\* selected word.
Selections   == {<<>>, <<"a">>}

\* ------------------------------------------------------- string primitives
Min(a, b) == IF a < b THEN a ELSE b
Max(a, b) == IF a > b THEN a ELSE b

\* String.prototype.substring(from, to): both ends clamped to [0, |s|].
Clamp(x, s) == Min(Max(x, 0), Len(s))

substring(s, from, to) ==
  SubSeq(s, Min(Clamp(from, s), Clamp(to, s)) + 1, Max(Clamp(from, s), Clamp(to, s)))

\* String.prototype.substr(start, length) for start >= 0.
substr(s, start, length) ==
  SubSeq(s, Clamp(start, s) + 1, Min(Clamp(start, s) + Max(length, 0), Len(s)))

\* Canonicalize of the 'i' flag on the modelled alphabet.
Fold(c) == IF c = "A" THEN "a" ELSE c

\* One pattern character against one input character; ci is the 'i' flag.
CharEq(pc, c, ci) == IF ci THEN Fold(pc) = Fold(c) ELSE pc = c

\* ------------------------------------------------------- new RegExp(...)
Quantifiers == {"*", "+"}

\* A quantifier needs an atom right before it; anything else is the
\* SyntaxError "nothing to repeat".
ValidPattern(p) ==
  \A i \in 1..Len(p) :
     p[i] \in Quantifiers => (i > 1 /\ p[i - 1] \notin Quantifiers)

\* The compiled pattern: its atoms in order, each with its quantifier
\* (star: the atom repeats; min: the fewest repetitions, 0 for "*", 1 for "+").
Items(p) ==
  LET RECURSIVE Build(_)
      Build(i) ==
        IF i > Len(p) THEN <<>>
        ELSE IF p[i] \in Quantifiers THEN Build(i + 1)
        ELSE <<[ch |-> p[i],
                star |-> (i < Len(p) /\ p[i + 1] \in Quantifiers),
                min |-> IF i < Len(p) /\ p[i + 1] = "*" THEN 0 ELSE 1]>>
             \o Build(i + 1)
  IN Build(1)

\* Backtracking matcher anchored at offset pos: the end offset of the match
\* the engine finds first (a greedy quantifier tries its longest run first
\* and gives back one repetition at a time down to its minimum), or -1.
RECURSIVE MatchFrom(_, _, _, _, _)
RECURSIVE TryGreedy(_, _, _, _, _, _)
RECURSIVE RunLen(_, _, _, _)

RunLen(ch, s, pos, ci) ==
  IF pos < Len(s) /\ CharEq(ch, s[pos + 1], ci)
  THEN 1 + RunLen(ch, s, pos + 1, ci)
  ELSE 0

TryGreedy(items, k, s, pos, count, ci) ==
  IF count < items[k].min THEN -1
  ELSE IF MatchFrom(items, k + 1, s, pos + count, ci) # -1
  THEN MatchFrom(items, k + 1, s, pos + count, ci)
  ELSE TryGreedy(items, k, s, pos, count - 1, ci)

MatchFrom(items, k, s, pos, ci) ==
  IF k > Len(items) THEN pos
  ELSE IF items[k].star
       THEN TryGreedy(items, k, s, pos, RunLen(items[k].ch, s, pos, ci), ci)
       ELSE IF pos < Len(s) /\ CharEq(items[k].ch, s[pos + 1], ci)
            THEN MatchFrom(items, k + 1, s, pos + 1, ci)
            ELSE -1

NoMatch == [index |-> -1, end |-> -1]

\* RegExp.prototype.exec on a global regex: the leftmost match at or after
\* lastIndex, or null.
RECURSIVE FirstHit(_, _, _, _)
FirstHit(items, s, q, ci) ==
  IF q > Len(s) THEN -1
  ELSE IF MatchFrom(items, 1, s, q, ci) # -1 THEN q
  ELSE FirstHit(items, s, q + 1, ci)

MatchResult(items, s, q, ci) ==
  IF q = -1 THEN NoMatch
  ELSE [index |-> q, end |-> MatchFrom(items, 1, s, q, ci)]

exec(items, s, lastIndex, ci) ==
  MatchResult(items, s, FirstHit(items, s, lastIndex, ci), ci)

\* ------------------------------------------------ the match recompute scan
\* while ((match = regex.exec(content)) !== null) newMatches.push(match.index)
\* with the 'gi' regex.  exec leaves lastIndex at the end of the match; when
\* that does not move lastIndex (an empty match at lastIndex) the next exec
\* finds the same match again and the loop never exits: hung.
RECURSIVE scanLoop(_, _, _, _)

\* Mutant of scanStep: the scan resumes one character after the start of the
\* previous match instead of after its end.
scanStepOverlap(items, s, lastIndex, newMatches, match) ==
  IF match = NoMatch THEN [hung |-> FALSE, matches |-> newMatches]
  ELSE IF match.end = lastIndex THEN [hung |-> TRUE, matches |-> newMatches]
  ELSE scanLoop(items, s, match.index + 1, Append(newMatches, match.index))

\* One turn of the loop, match being what exec returned at lastIndex.
scanStep(items, s, lastIndex, newMatches, match) ==
  IF match = NoMatch THEN [hung |-> FALSE, matches |-> newMatches]
  ELSE IF match.end = lastIndex THEN [hung |-> TRUE, matches |-> newMatches]
  ELSE scanLoop(items, s, match.end, Append(newMatches, match.index))

scanLoop(items, s, lastIndex, newMatches) ==
  scanStep(items, s, lastIndex, newMatches, exec(items, s, lastIndex, TRUE))

\* The outcome of the scan from lastIndex 0 for every compilable pattern and
\* every buffer, tabulated once (@@ turns the function into its table).
scanAll ==
  [p \in {q \in Patterns : ValidPattern(q)}, s \in Buffers |->
     scanLoop(Items(p), s, 0, <<>>)] @@ <<>>

\* ------------------------------------------- content.replace(regex, text)
\* String.prototype.replace with the 'g' regex (no 'i' flag): one pass over
\* the original string; after an empty match lastIndex is advanced by one.
\* (The replacement alphabet has no "$", so the text is inserted literally.)
RECURSIVE replaceLoop(_, _, _, _, _, _)

\* lastIndex for the next exec: AdvanceStringIndex after an empty match.
AdvanceIndex(match) ==
  IF match.end = match.index THEN match.end + 1 ELSE match.end

\* One turn of the loop, match being what exec returned at lastIndex.
replaceStep(items, s, nextSourcePosition, accumulated, replacement, match) ==
  IF match = NoMatch
  THEN accumulated \o substring(s, nextSourcePosition, Len(s))
  ELSE IF match.index >= nextSourcePosition
       THEN replaceLoop(items, s, AdvanceIndex(match), match.end,
                        accumulated \o substring(s, nextSourcePosition, match.index)
                                    \o replacement,
                        replacement)
       ELSE replaceLoop(items, s, AdvanceIndex(match), nextSourcePosition,
                        accumulated, replacement)

replaceLoop(items, s, lastIndex, nextSourcePosition, accumulated, replacement) ==
  replaceStep(items, s, nextSourcePosition, accumulated, replacement,
              exec(items, s, lastIndex, FALSE))

\* Mutant of replace: the result of the pass is scanned and replaced again.
replaceCascade(s, p, replacement) ==
  replaceLoop(Items(p), replaceLoop(Items(p), s, 0, 0, <<>>, replacement),
              0, 0, <<>>, replacement)

replace(s, p, replacement) == replaceLoop(Items(p), s, 0, 0, <<>>, replacement)

\* The start offsets of the matches that replace() substitutes.
RECURSIVE replaceStarts(_, _, _, _)

replaceStartsStep(items, s, starts, match) ==
  IF match = NoMatch THEN starts
  ELSE replaceStarts(items, s, AdvanceIndex(match), Append(starts, match.index))

replaceStarts(items, s, lastIndex, starts) ==
  replaceStartsStep(items, s, starts, exec(items, s, lastIndex, FALSE))

\* ------------------------------------------------------ editable surface
\* The children of the [contenteditable] element: a text node, or the
\* before-text / highlight span / after-text triple navigateMatch builds.
Plain(text) == [marked |-> FALSE, before |-> text, mark |-> <<>>, after |-> <<>>]

SurfaceText(sf) == sf.before \o sf.mark \o sf.after

\* textArea.firstChild: an unmarked surface with no text has no child node.
HasTextNode(sf) == sf.marked \/ Len(sf.before) > 0

\* -------------------------------------------------------- navigateMatch
\* The JavaScript % operator: the remainder takes the sign of the dividend.
Rem(a, n) == IF a >= 0 THEN a % n ELSE 0 - ((0 - a) % n)

\* Mutant of NextIndex: 'prev' steps forward like 'next'.
NextIndexIgnoresDirection(currentMatchIx, direction, n) ==
  Rem(currentMatchIx + 1, n)

\* Mutant of NextIndex: the ends stop instead of wrapping around.
NextIndexSaturating(currentMatchIx, direction, n) ==
  IF direction = "next"
  THEN Min(currentMatchIx + 1, n - 1)
  ELSE Max(currentMatchIx - 1, 0)

NextIndex(currentMatchIx, direction, n) ==
  IF direction = "next"
  THEN Rem(currentMatchIx + 1, n)
  ELSE Rem(currentMatchIx - 1 + n, n)

\* Mutant of Highlight: the text after the span resumes one character after
\* the start of the match, whatever the length of the span.
HighlightResumesAfterOne(sf, text, matchPosition, patLen) ==
  IF HasTextNode(sf)
  THEN [marked |-> TRUE,
        before |-> substring(text, 0, matchPosition),
        mark   |-> substr(text, matchPosition, patLen),
        after  |-> substring(text, matchPosition + 1, Len(text))]
  ELSE sf

\* The surface navigateMatch leaves: everything is cut out of the render's
\* content at matchPosition with the length of the pattern text.
Highlight(sf, text, matchPosition, patLen) ==
  IF HasTextNode(sf)
  THEN [marked |-> TRUE,
        before |-> substring(text, 0, matchPosition),
        mark   |-> substr(text, matchPosition, patLen),
        after  |-> substring(text, matchPosition + patLen, Len(text))]
  ELSE sf

\* Mutant of navigateTo: the text before the match is emitted as the buffer.
navigateToEmits(st, newCurrentMatch) ==
  [st EXCEPT !.currentMatch = newCurrentMatch,
             !.content = substring(st.content, 0, st.matches[newCurrentMatch + 1]),
             !.surface = Plain(substring(st.content, 0,
                                         st.matches[newCurrentMatch + 1]))]

\* navigateMatch called in render st: the queued currentMatch and the DOM.
navigateTo(st, newCurrentMatch) ==
  [st EXCEPT !.currentMatch = newCurrentMatch,
             !.surface = Highlight(st.surface, st.content,
                                   st.matches[newCurrentMatch + 1],
                                   Len(st.findText))]

navigateMatch(st, direction) ==
  IF Len(st.matches) = 0 THEN st
  ELSE navigateTo(st, NextIndex(st.currentMatch, direction, Len(st.matches)))

\* ------------------------------------------------------------------ state
VARIABLES
  content,        \* prop content = the host's transcriptContent
  isOpen,         \* prop isOpen = the host's isFindReplaceOpen
  selectedText,   \* prop initialSearchText = the host's selectedText
  findText,       \* useState('')
  replaceText,    \* useState('')
  matches,        \* useState<number[]>([])
  currentMatch,   \* useState(-1)
  surface,        \* the [contenteditable] element the highlight is written to
  status,         \* "ok", "crashed" (an effect threw: React unmounts the
                  \* root, no error boundary) or "hung" (an effect never returns)
  pre,            \* history: the replace handler that ran last, if it was
                  \* the last event, and the values it read
  navDir          \* history: the direction if the last event was a navigation

vars == <<content, isOpen, selectedText, findText, replaceText, matches,
          currentMatch, surface, status, pre, navDir>>

\* The values one render of the component sees.
Cur == [content |-> content, isOpen |-> isOpen, selectedText |-> selectedText,
        findText |-> findText, replaceText |-> replaceText,
        matches |-> matches, currentMatch |-> currentMatch,
        surface |-> surface, status |-> status]

\* The dependency arrays of the effects, as of render st.
Deps(st) == [isOpen |-> st.isOpen, selectedText |-> st.selectedText,
             findText |-> st.findText, content |-> st.content,
             mlen |-> Len(st.matches)]

\* ---------------------------------------------------------------- effects
\* Each effect closes over render st and queues its updates onto acc.

\* useEffect(..., [isOpen, initialSearchText])
seedEffect(acc, st) ==
  IF st.isOpen /\ st.selectedText # <<>>
  THEN [acc EXCEPT !.findText = st.selectedText]
  ELSE acc

\* Mutant of scanned: the cursor is set to 0 also when nothing matched.
scannedAlwaysZero(acc, st, r) ==
  IF r.hung
  THEN [st EXCEPT !.status = "hung"]
  ELSE [acc EXCEPT !.matches = r.matches, !.currentMatch = 0]

\* setMatches(newMatches); setCurrentMatch(newMatches.length > 0 ? 0 : -1)
\* once the scan loop has returned r (it never does when it hangs).
scanned(acc, st, r) ==
  IF r.hung
  THEN [st EXCEPT !.status = "hung"]
  ELSE [acc EXCEPT !.matches = r.matches,
                   !.currentMatch = IF Len(r.matches) > 0 THEN 0 ELSE -1]

\* Mutant of matchEffect: an emptied pattern leaves the old matches in place.
matchEffectKeepsStale(acc, st) ==
  IF st.findText # <<>>
  THEN IF ~ValidPattern(st.findText)
       THEN [st EXCEPT !.status = "crashed"]
       ELSE scanned(acc, st, scanAll[st.findText, st.content])
  ELSE acc

\* useEffect(..., [findText, content]): new RegExp throws on a bad pattern.
matchEffect(acc, st) ==
  IF st.findText # <<>>
  THEN IF ~ValidPattern(st.findText)
       THEN [st EXCEPT !.status = "crashed"]
       ELSE scanned(acc, st, scanAll[st.findText, st.content])
  ELSE [acc EXCEPT !.matches = <<>>, !.currentMatch = -1]

\* The currentMatch and the surface navigateMatch produced, n, queued onto acc.
navigated(acc, n) ==
  [acc EXCEPT !.currentMatch = n.currentMatch, !.surface = n.surface]

\* useEffect(..., [matches.length])
highlightEffect(acc, st) ==
  IF st.findText # <<>> /\ Len(st.matches) > 0
  THEN navigated(acc, navigateMatch(st, "next"))
  ELSE acc

\* The effects of render st, in declaration order, given the dependencies
\* prev of the render before it; each stage passes on the queued updates.
seedStage(st, prev) ==
  IF st.isOpen # prev.isOpen \/ st.selectedText # prev.selectedText
  THEN seedEffect(st, st) ELSE st

matchStage(st, prev, acc) ==
  IF st.findText # prev.findText \/ st.content # prev.content
  THEN matchEffect(acc, st) ELSE acc

highlightStage(st, prev, acc) ==
  IF acc.status # "ok" THEN acc
  ELSE IF Len(st.matches) # prev.mlen THEN highlightEffect(acc, st) ELSE acc

\* The state of the next render.
EffectsPass(st, prev) ==
  highlightStage(st, prev, matchStage(st, prev, seedStage(st, prev)))

\* Render and run effects until no effect changes the state any more.
RECURSIVE Settle(_, _)

SettleStep(st, nxt) ==
  IF nxt.status # "ok" \/ nxt = st THEN nxt
  ELSE Settle(nxt, Deps(st))

Settle(st, prev) == SettleStep(st, EffectsPass(st, prev))

\* An event that turned the settled state Cur into st0, fully processed.
Process(st0) == IF st0 = Cur THEN Cur ELSE Settle(st0, Deps(Cur))

NoPre == [op |-> "none", content |-> <<>>, findText |-> <<>>, replaceText |-> <<>>,
          matches |-> <<>>, currentMatch |-> -1]

Commit(r) ==
  /\ content' = r.content
  /\ isOpen' = r.isOpen
  /\ selectedText' = r.selectedText
  /\ findText' = r.findText
  /\ replaceText' = r.replaceText
  /\ matches' = r.matches
  /\ currentMatch' = r.currentMatch
  /\ surface' = r.surface
  /\ status' = r.status

NoNav == navDir' = "none"

Init ==
  /\ content = <<>>
  /\ isOpen = FALSE
  /\ selectedText = <<>>
  /\ findText = <<>>
  /\ replaceText = <<>>
  /\ matches = <<>>
  /\ currentMatch = -1
  /\ surface = Plain(<<>>)
  /\ status = "ok"
  /\ navDir = "none"
  /\ pre = NoPre

\* ------------------------------------------------------------ host editor
\* The transcript container renders the content prop into the editable
\* surface: a changed content replaces its children by the plain text.
setText(sf, old, new) == IF new = old THEN sf ELSE Plain(new)

\* handleContentUpdate(content): setTranscriptContent(content)
handleContentUpdate(st, newContent) ==
  [st EXCEPT !.content = newContent,
             !.surface = setText(st.surface, st.content, newContent)]

\* onClose={() => setIsFindReplaceOpen(false)}
onClose(st) == [st EXCEPT !.isOpen = FALSE]

\* b is a with one character inserted.
Inserted(a, b) ==
  /\ Len(b) = Len(a) + 1
  /\ \E i \in 0..Len(a) :
       /\ SubSeq(b, 1, i) = SubSeq(a, 1, i)
       /\ SubSeq(b, i + 2, Len(b)) = SubSeq(a, i + 1, Len(a))

\* The user types into the transcript: one character is inserted or deleted
\* per event (any buffer is reached by a sequence of such edits).
HostEdit ==
  /\ status = "ok"
  /\ \E b \in {x \in Buffers : Inserted(content, x) \/ Inserted(x, content)} :
       Commit(Process(handleContentUpdate(Cur, b)))
  /\ pre' = NoPre
  /\ NoNav

\* The find/replace hotkey: remember the page selection, toggle the modal.
onFindReplace ==
  /\ status = "ok"
  /\ \E selected \in Selections :
       Commit(Process([Cur EXCEPT !.selectedText = selected,
                                  !.isOpen = ~isOpen]))
  /\ pre' = NoPre
  /\ NoNav

\* onOpenFindReplace={() => setIsFindReplaceOpen(true)}
onOpenFindReplace ==
  /\ status = "ok"
  /\ ~isOpen
  /\ Commit(Process([Cur EXCEPT !.isOpen = TRUE]))
  /\ pre' = NoPre
  /\ NoNav

\* The X button of the modal.
CloseClick ==
  /\ status = "ok"
  /\ isOpen
  /\ Commit(Process(onClose(Cur)))
  /\ pre' = NoPre
  /\ NoNav

\* ------------------------------------------------------------- the modal
\* onChange of the find input
SetFindText ==
  /\ status = "ok"
  /\ isOpen
  /\ \E p \in Patterns \ {findText} :
       Commit(Process([Cur EXCEPT !.findText = p]))
  /\ pre' = NoPre
  /\ NoNav

\* onChange of the replace input
SetReplaceText ==
  /\ status = "ok"
  /\ isOpen
  /\ \E r \in Replacements \ {replaceText} :
       Commit(Process([Cur EXCEPT !.replaceText = r]))
  /\ pre' = NoPre
  /\ NoNav

\* The arrow buttons.  navigateMatch itself returns early on no matches.
Navigate(direction) ==
  /\ status = "ok"
  /\ isOpen
  /\ Commit(Process(navigateMatch(Cur, direction)))
  /\ pre' = NoPre
  /\ navDir' = direction

NavigateNext == Navigate("next")

NavigatePrev == Navigate("prev")

\* Mutant of replaceHandler: the early return on an empty pattern is missing.
replaceHandlerUnguarded(st) ==
  onClose([handleContentUpdate(st, replace(st.content, st.findText,
                                           st.replaceText))
             EXCEPT !.findText = <<>>, !.replaceText = <<>>])

\* handleReplace and handleReplaceAll have the same body.
replaceHandler(st) ==
  IF st.findText = <<>> THEN st
  ELSE onClose([handleContentUpdate(st, replace(st.content, st.findText,
                                                st.replaceText))
                  EXCEPT !.findText = <<>>, !.replaceText = <<>>])

handleReplace ==
  /\ status = "ok"
  /\ isOpen
  /\ \E r \in {replaceHandler(Cur)} :
       /\ Len(r.content) <= MaxBufLen
       /\ Commit(Process(r))
  /\ pre' = [op |-> "replace", content |-> content, findText |-> findText,
             replaceText |-> replaceText, matches |-> matches,
             currentMatch |-> currentMatch]
  /\ NoNav

handleReplaceAll ==
  /\ status = "ok"
  /\ isOpen
  /\ \E r \in {replaceHandler(Cur)} :
       /\ Len(r.content) <= MaxBufLen
       /\ Commit(Process(r))
  /\ pre' = [op |-> "replaceAll", content |-> content, findText |-> findText,
             replaceText |-> replaceText, matches |-> matches,
             currentMatch |-> currentMatch]
  /\ NoNav

\* --------------------------------------------------------- specification
Next ==
  \/ HostEdit
  \/ onFindReplace
  \/ onOpenFindReplace
  \/ CloseClick
  \/ SetFindText
  \/ SetReplaceText
  \/ NavigateNext
  \/ NavigatePrev
  \/ handleReplace
  \/ handleReplaceAll

Spec == Init /\ [][Next]_vars

\* The counter span: `${currentMatch + 1}/${matches.length}` or '0/0'.
matchCounter ==
  IF Len(matches) > 0 THEN <<currentMatch + 1, Len(matches)>> ELSE <<0, 0>>

TypeOK ==
  /\ content \in Buffers
  /\ findText \in Patterns
  /\ replaceText \in Replacements
  /\ selectedText \in Selections
  /\ isOpen \in BOOLEAN
  /\ status \in {"ok", "crashed", "hung"}
  /\ SurfaceText(surface) = content

\* ================================================================ claims

\* The match of the 'gi' regex that starts at offset start of text s: its length.
MatchLenAt(p, s, start) == MatchFrom(Items(p), 1, s, start, TRUE) - start

\* C1: whenever the pattern or the buffer has changed and the recomputed
\* match sequence is non-empty, the cursor is on index 0 (the first match)
\* once the change is fully processed.
C1_Reanchored ==
  ((findText' # findText \/ content' # content)
     /\ status' = "ok" /\ Len(matches') > 0)
    => currentMatch' = 0

C1_CursorReanchoredToFirst == [][C1_Reanchored]_vars

\* C2: in every reachable state, a non-empty match sequence has
\* 0 <= cursor < number of matches and an empty one has the cursor none (-1).
C2_CursorInRange ==
  /\ Len(matches) > 0 => (0 <= currentMatch /\ currentMatch < Len(matches))
  /\ Len(matches) = 0 => currentMatch = -1

\* A 'prev' navigation has wrapped from the first match to the last one.
C2_Witness ==
  /\ navDir = "prev"
  /\ Len(matches) >= 2
  /\ currentMatch = Len(matches) - 1

\* C3: a navigation on n > 0 matches with cursor i sets the cursor to
\* (i + 1) mod n for next and (i - 1 + n) mod n for prev; on an empty
\* sequence it changes neither the cursor nor the surface.
C3_NavStep(direction) ==
  navDir' = direction =>
    IF Len(matches) = 0
    THEN currentMatch' = currentMatch /\ surface' = surface /\ matches' = matches
    ELSE /\ matches' = matches
         /\ currentMatch' = IF direction = "next"
                            THEN (currentMatch + 1) % Len(matches)
                            ELSE (currentMatch - 1 + Len(matches)) % Len(matches)

C3_NavigateAdvances == [][C3_NavStep("next") /\ C3_NavStep("prev")]_vars

\* A 'next' navigation has wrapped from the last match to the first one.
C3_Witness ==
  /\ navDir = "next"
  /\ Len(matches) >= 2
  /\ currentMatch = 0

\* The cursor after k more navigations in one direction over n matches.
RECURSIVE Advanced(_, _, _, _)
Advanced(i, direction, n, k) ==
  IF k = 0 THEN i ELSE Advanced(NextIndex(i, direction, n), direction, n, k - 1)

\* C4: n consecutive navigations in one direction over an unchanged
\* sequence of n > 0 matches bring the cursor back to where it started,
\* from every cursor index a session reaches.
C4_FullCycleReturns ==
  Len(matches) > 0 =>
    /\ Advanced(currentMatch, "next", Len(matches), Len(matches)) = currentMatch
    /\ Advanced(currentMatch, "prev", Len(matches), Len(matches)) = currentMatch

\* Navigation has moved the cursor to the middle of three or more matches.
C4_Witness ==
  /\ navDir \in {"next", "prev"}
  /\ Len(matches) >= 3
  /\ currentMatch = 1

\* C5: the match sequence has strictly increasing start offsets and no two
\* matches overlap; pattern "aa" on buffer "aaa" yields the one match at 0.
C5_MatchesIncreasingDisjoint ==
  status = "ok" =>
    /\ \A i \in 1..Len(matches) :
         /\ 0 <= matches[i]
         /\ matches[i] + MatchLenAt(findText, content, matches[i]) <= Len(content)
    /\ \A i \in 1..(Len(matches) - 1) :
         /\ matches[i] < matches[i + 1]
         /\ matches[i] + MatchLenAt(findText, content, matches[i]) <= matches[i + 1]
    /\ (findText = <<"a", "a">> /\ content = <<"a", "a", "a">>) => matches = <<0>>

\* The self-overlapping pattern has been scanned.
C5_Witness ==
  /\ status = "ok"
  /\ findText = <<"a", "a">>
  /\ content = <<"a", "a", "a">>
  /\ matches = <<0>>

\* C6: Replace (single) replaces exactly the match at the cursor; all of the
\* buffer outside that span, other matches included, is unchanged.
C6_ReplaceOneIsLocal ==
  (pre.op = "replace" /\ Len(pre.matches) > 0) =>
    LET start == pre.matches[pre.currentMatch + 1]
        len == MatchLenAt(pre.findText, pre.content, start)
    IN content = substring(pre.content, 0, start) \o pre.replaceText
                   \o substring(pre.content, start + len, Len(pre.content))

\* C7: Replace All scans like the match finder: the spans it replaces are
\* exactly the match sequence the finder reports for the buffer and pattern.
C7_ReplaceAllUsesFinderScan ==
  (status = "ok" /\ findText # <<>>) =>
    replaceStarts(Items(findText), content, 0, <<>>) = matches

\* The buffer s with each of the given spans (start offsets with their end
\* offsets, in document order) replaced by rep, everything else kept.
RECURSIVE Splice(_, _, _, _, _)
Splice(s, starts, ends, rep, from) ==
  IF starts = <<>> THEN substring(s, from, Len(s))
  ELSE substring(s, from, Head(starts)) \o rep
         \o Splice(s, Tail(starts), Tail(ends), rep, Head(ends))

\* C8: Replace All is one pass over the original buffer: each match of the
\* original is replaced exactly once and inserted text is never re-scanned.
C8_ReplaceAllSinglePass ==
  (pre.op = "replaceAll" /\ pre.findText # <<>>) =>
    LET items == Items(pre.findText)
        starts == replaceStarts(items, pre.content, 0, <<>>)
        ends == [i \in 1..Len(starts) |->
                   MatchFrom(items, 1, pre.content, starts[i], FALSE)]
    IN /\ content = Splice(pre.content, starts, ends, pre.replaceText, 0)
       /\ (pre.content = <<"a">> /\ pre.findText = <<"a">>
             /\ pre.replaceText = <<"a", "a">>) => content = <<"a", "a">>
       /\ (pre.content = <<"a", "b", "a">> /\ pre.findText = <<"a">>
             /\ pre.replaceText = <<>>) => content = <<"b">>

\* The replacement contained the pattern and was not scanned again.
C8_Witness ==
  /\ pre.op = "replaceAll"
  /\ pre.content = <<"a">>
  /\ pre.findText = <<"a">>
  /\ pre.replaceText = <<"a", "a">>
  /\ content = <<"a", "a">>

\* C9: a syntactically invalid pattern is recovered locally: the session
\* does not crash, the match sequence becomes empty, the counter shows 0/0.
C9_InvalidPatternRecovered ==
  ~ValidPattern(findText) =>
    /\ status = "ok"
    /\ matches = <<>>
    /\ matchCounter = <<0, 0>>

\* C10: whenever the pattern is empty the match sequence is empty, the
\* cursor is none and the counter shows 0/0, whatever the buffer.
C10_EmptyPatternNoMatches ==
  findText = <<>> =>
    /\ matches = <<>>
    /\ currentMatch = -1
    /\ matchCounter = <<0, 0>>

\* The pattern is empty again on a non-empty buffer that still shows the
\* highlight of an earlier match, with the modal open.
C10_Witness ==
  /\ isOpen
  /\ pre.op = "none"
  /\ findText = <<>>
  /\ Len(content) > 0
  /\ surface.marked
  /\ matches = <<>>

\* C11: Replace and Replace All invoked with an empty pattern are rejected:
\* no buffer is emitted, and the buffer, the surface it is rendered into, the
\* replacement text and the open/closed state are all unchanged.
C11_Rejected ==
  (pre'.op \in {"replace", "replaceAll"} /\ findText = <<>>) =>
    /\ content' = content
    /\ surface' = surface
    /\ replaceText' = replaceText
    /\ isOpen' = isOpen

C11_EmptyPatternReplaceRejected == [][C11_Rejected]_vars

\* Replace All was invoked with an empty pattern while a replacement text was
\* typed and the buffer was not empty; the modal is still open.
C11_Witness ==
  /\ pre.op = "replaceAll"
  /\ pre.findText = <<>>
  /\ isOpen
  /\ Len(content) > 0
  /\ Len(replaceText) > 0
  /\ pre.replaceText = replaceText

\* C12: editing the pattern or the replacement field, navigating next/prev
\* (with the highlighting it performs), opening and closing the modal never
\* change the buffer; only Replace / Replace All (and the host's own typing,
\* which changes none of the modal's inputs) do.
C12_NoEmit ==
  (/\ pre'.op = "none"
   /\ \/ findText' # findText
      \/ replaceText' # replaceText
      \/ isOpen' # isOpen
      \/ selectedText' # selectedText
      \/ navDir' # "none")
    => content' = content

C12_BufferChangesOnlyByReplace == [][C12_NoEmit]_vars

\* A navigation has highlighted a match that is not at the start of the
\* buffer, and the buffer is still what the surface shows.
C12_Witness ==
  /\ navDir = "prev"
  /\ pre.op = "none"
  /\ surface.marked
  /\ Len(surface.before) > 0
  /\ SurfaceText(surface) = content

\* The surface after one more projection of match i of the current sequence.
Projected(sf, i) == Highlight(sf, content, matches[i], Len(findText))

\* C13: after any sequence of navigations the plain text of the surface,
\* marker wrapping ignored, is the buffer that was scanned: a projection
\* neither inserts, drops nor reorders characters, and projecting a span
\* again leaves the same single marker (markers do not accumulate).
C13_SurfaceTextIsBuffer ==
  status = "ok" =>
    /\ SurfaceText(surface) = content
    /\ ~surface.marked => (surface.mark = <<>> /\ surface.after = <<>>)
    /\ \A i \in 1..Len(matches) :
         /\ SurfaceText(Projected(surface, i)) = content
         /\ Projected(Projected(surface, i), i) = Projected(surface, i)

\* A navigation has marked a two-character span in the middle of the buffer.
C13_Witness ==
  /\ status = "ok"
  /\ navDir = "next"
  /\ surface.marked
  /\ Len(surface.before) > 0
  /\ Len(surface.mark) = 2
  /\ SurfaceText(surface) = content

\* C14: in every settled state with an empty match sequence the surface
\* carries no highlight marker (the marker of an earlier match is removed
\* when the cursor becomes none).
C14_NoMarkerWithoutMatches ==
  (status = "ok" /\ matches = <<>>) => ~surface.marked

\* C15: once a pattern change, a buffer change or a navigation is fully
\* processed and the match sequence is non-empty, the surface is marked and
\* the marked span starts at matches[cursor] of the current sequence.
C15_InSync ==
  (/\ findText' # findText \/ content' # content \/ navDir' # "none"
   /\ status' = "ok"
   /\ Len(matches') > 0)
    => /\ surface'.marked
       /\ Len(surface'.before) = matches'[currentMatch' + 1]

C15_HighlightFollowsCursor == [][C15_InSync]_vars

\* C16: the span a navigation has just highlighted lies inside the buffer,
\* with the length the projector has marked, and is exactly the text the
\* pattern matched at that offset.
C16_MarkedSpanIsTheMatch ==
  (status = "ok" /\ navDir # "none" /\ Len(matches) > 0) =>
    LET start == matches[currentMatch + 1]
    IN /\ surface.marked
       /\ Len(surface.before) = start
       /\ 0 <= start
       /\ start + Len(surface.mark) <= Len(content)
       /\ surface.mark = substring(content, start,
                                   start + MatchLenAt(findText, content, start))

\* C17: the match scan terminates for every valid pattern and every buffer,
\* also for patterns that can match the empty string.
C17_ScanTerminates == status # "hung"
====
